---- MODULE Spec2Model ----
(***************************************************************************)
(* calcurse, src/event.c: the event store (eventlist), the canonical text  *)
(* of an event (event_tostr / event_write), its hash, and the filtered     *)
(* loader event_scan.                                                      *)
(*                                                                         *)
(* Strings are sequences of byte values.  An optional value (a pointer     *)
(* that may be NULL) is <<>> for NULL and <<v>> for a pointer to v.  A     *)
(* struct event * is a heap address in Addr, 0 is the NULL pointer.        *)
(* time_t is a count of seconds; the local time zone is UTC.               *)
(***************************************************************************)
EXTENDS Integers, Sequences, FiniteSets, TLC

(* ------------------------------ bounds --------------------------------- *)

\* Number of heap cells mem_malloc can hand out for struct event.
MaxRec == 3

\* Number of records of the caller that pastes records still linked.
MaxLinked == 2

\* Longest content of the stream handed to event_scan.
MaxFile == 3

\* Size of event_scan's line buffer (stdio's BUFSIZ, scaled down so that a
\* line longer than the buffer occurs within MaxFile).
BUFSIZ == 3

(* --------------------------- C library types --------------------------- *)

\* Largest value of a 32-bit signed time_t.
TIME_T_MAX == 2147483647

DAYINSEC == 86400

TYPE_MASK_EVNT == 1

None == << >>

Some(x) == << x >>

IsSome(o) == o # << >>

Val(o) == o[1]

\* Byte values of the characters the model uses.
ch == [nl |-> 10, sp |-> 32, minus |-> 45, slash |-> 47, zero |-> 48,
       gt |-> 62, lbr |-> 91, rbr |-> 93, a |-> 97, b |-> 98, n |-> 110]

Addr == 1 .. MaxRec

(* ------------------------------ calendar ------------------------------- *)

\* Days since 1970-01-01 of the civil date y-m-d (proleptic Gregorian); d may
\* run past the end of the month, as mktime normalises it.
days_from_civil(y, m, d) ==
  LET yy  == IF m <= 2 THEN y - 1 ELSE y
      era == yy \div 400
      yoe == yy - era * 400
      mp  == IF m > 2 THEN m - 3 ELSE m + 9
      doy == (153 * mp + 2) \div 5 + d - 1
      doe == yoe * 365 + yoe \div 4 - yoe \div 100 + doy
  IN  era * 146097 + doe - 719468

\* The civil date of a day number, as [year, mon (1-12), mday].
civil_from_days(z0) ==
  LET z   == z0 + 719468
      era == z \div 146097
      doe == z - era * 146097
      yoe == (doe - doe \div 1460 + doe \div 36524 - doe \div 146096) \div 365
      doy == doe - (365 * yoe + yoe \div 4 - yoe \div 100)
      mp  == (5 * doy + 2) \div 153
      d   == doy - (153 * mp + 2) \div 5 + 1
      m   == IF mp < 10 THEN mp + 3 ELSE mp - 9
      y   == yoe + era * 400 + (IF m <= 2 THEN 1 ELSE 0)
  IN  [year |-> y, mon |-> m, mday |-> d]

ISLEAP(y) == ((y % 4) = 0 /\ (y % 100) # 0) \/ (y % 400) = 0

days_in_month(y, m) ==
  IF m = 2 THEN (IF ISLEAP(y) THEN 29 ELSE 28)
  ELSE IF m \in {4, 6, 9, 11} THEN 30 ELSE 31

check_date(year, month, day) ==
  /\ year >= 1902
  /\ month >= 1
  /\ month <= 12
  /\ day >= 1
  /\ day <= days_in_month(year, month)

check_time(hours, minutes) == hours < 24 /\ minutes < 60

\* localtime_r in UTC: the broken-down time of t (tm_year counts from 1900,
\* tm_mon from 0).
localtime_r(t) ==
  LET c   == civil_from_days(t \div DAYINSEC)
      sod == t % DAYINSEC
  IN  [tm_year |-> c.year - 1900, tm_mon |-> c.mon - 1, tm_mday |-> c.mday,
       tm_hour |-> sod \div 3600, tm_min |-> (sod % 3600) \div 60,
       tm_sec |-> sod % 60]

\* mktime in UTC: seconds since the epoch, or -1 when time_t cannot hold the
\* result.
mktime(tm) ==
  LET days == days_from_civil(tm.tm_year + 1900, tm.tm_mon + 1, tm.tm_mday)
      sod  == tm.tm_hour * 3600 + tm.tm_min * 60 + tm.tm_sec
      q    == TIME_T_MAX \div DAYINSEC
      r    == TIME_T_MAX % DAYINSEC
  IN  IF days > q \/ (days = q /\ sod > r) \/ days < 0 - q THEN -1
      ELSE days * DAYINSEC + sod

\* ENDOFDAY(date) is NEXTDAY(date) - 1, NEXTDAY adding one to tm_mday.
ENDOFDAY(t) ==
  LET lt == localtime_r(t)
  IN  mktime([lt EXCEPT !.tm_mday = @ + 1]) - 1

(* ------------------------------- strings ------------------------------- *)

RECURSIVE strcmp(_, _)
\* Sign of the first differing byte; the end of a string is a 0 byte.
strcmp(s, t) ==
  IF s = << >> /\ t = << >> THEN 0
  ELSE IF s = << >> THEN -1
  ELSE IF t = << >> THEN 1
  ELSE IF Head(s) < Head(t) THEN -1
  ELSE IF Head(s) > Head(t) THEN 1
  ELSE strcmp(Tail(s), Tail(t))

RECURSIVE udigits(_)
\* Decimal digits of n >= 0.
udigits(n) ==
  IF n < 10 THEN << ch.zero + n >>
  ELSE udigits(n \div 10) \o << ch.zero + (n % 10) >>

RECURSIVE zeros(_)
zeros(k) == IF k <= 0 THEN << >> ELSE << ch.zero >> \o zeros(k - 1)

\* printf "%0<w>u".
fmt_0u(w, n) == zeros(w - Len(udigits(n))) \o udigits(n)

\* printf "%d".
fmt_d(n) == IF n < 0 THEN << ch.minus >> \o udigits(0 - n) ELSE udigits(n)

\* Index of the first occurrence of byte c in s, 0 when there is none.
strchr(s, c) ==
  IF \E i \in 1 .. Len(s) : s[i] = c
  THEN CHOOSE i \in 1 .. Len(s) : s[i] = c /\ \A j \in 1 .. i - 1 : s[j] # c
  ELSE 0

\* Strings over the byte set B of length at most k.
RECURSIVE Strings(_, _)
Strings(B, k) ==
  IF k = 0 THEN { << >> }
  ELSE LET S == Strings(B, k - 1)
       IN  S \cup { << c >> \o s : c \in B, s \in { x \in S : Len(x) = k - 1 } }

(* ------------------------------ the heap ------------------------------- *)

VARIABLES
  heap,       \* Addr -> None (a free cell) or Some(struct event)
  eventlist,  \* llist_t eventlist: the heap addresses of its items, head first
  held,       \* addresses of events the caller owns (duplicated or removed)
  exited,     \* the message of the EXIT that ended the process, "" before
  scan,       \* the activation record of event_scan
  datafile    \* the unread text of the data file, and the address of the
              \* record whose line event_write put there (0: none)

vars == << heap, eventlist, held, exited, scan, datafile >>

\* struct event.
Event(id, day, mesg, note) ==
  [id |-> id, day |-> day, mesg |-> mesg, note |-> note]

Live(hp) == { a \in Addr : IsSome(hp[a]) }

\* mem_malloc(sizeof(struct event)): the lowest free cell.
mem_malloc(hp) ==
  CHOOSE a \in Addr : hp[a] = None /\ \A b \in 1 .. a - 1 : hp[b] # None

CanAlloc(hp) == \E a \in Addr : hp[a] = None

InList(l, a) == \E i \in 1 .. Len(l) : l[i] = a

Count(l, a) == Cardinality({ i \in 1 .. Len(l) : l[i] = a })

(* ------------------------------ event_cmp ------------------------------ *)

\* A comparator that also lets the identifier decide.
event_cmp_id(a, b) ==
  IF a.day < b.day THEN -1
  ELSE IF a.day > b.day THEN 1
  ELSE IF a.id < b.id THEN -1
  ELSE IF a.id > b.id THEN 1
  ELSE strcmp(a.mesg, b.mesg)

event_cmp(a, b) ==
  IF a.day < b.day THEN -1
  ELSE IF a.day > b.day THEN 1
  ELSE strcmp(a.mesg, b.mesg)

\* event_cmp as the list calls it: on the events at addresses x and y.
fn_cmp(hp, x, y) == event_cmp(Val(hp[x]), Val(hp[y]))

(* ----------------------------- linked list ----------------------------- *)

\* LLIST_FIND_FIRST(l, data, NULL): index of the first item whose data
\* pointer is a, 0 when there is none.
LLIST_FIND_FIRST(l, a) == strchr(l, a)

\* LLIST_REMOVE(l, i): the list without its i-th item.
LLIST_REMOVE(l, i) == SubSeq(l, 1, i - 1) \o SubSeq(l, i + 1, Len(l))

InsertAt(l, k, a) == SubSeq(l, 1, k) \o << a >> \o SubSeq(l, k + 1, Len(l))

\* LLIST_ADD_SORTED(l, data, event_cmp) over heap hp: after the tail when
\* data is not below it, before the head when data is below it, otherwise
\* after the last item of the leading run of items that data is not below.
LLIST_ADD_SORTED(l, a, hp) ==
  IF l = << >> THEN << a >>
  ELSE IF fn_cmp(hp, a, l[Len(l)]) >= 0 THEN Append(l, a)
  ELSE IF fn_cmp(hp, a, l[1]) < 0 THEN << a >> \o l
  ELSE LET k == CHOOSE i \in 1 .. Len(l) :
                  /\ i = Len(l) \/ fn_cmp(hp, a, l[i + 1]) < 0
                  /\ \A j \in 1 .. i - 1 : fn_cmp(hp, a, l[j + 1]) >= 0
       IN  InsertAt(l, k, a)

(* ------------------------------- event.c ------------------------------- *)

\* The heap and list after event_new(mesg, note, day, id), and its result.
event_new_op(hp, l, mesg, note, day, id) ==
  LET ev  == mem_malloc(hp)
      hp2 == [hp EXCEPT ![ev] = Some(Event(id, day, mesg, note))]
  IN  [heap |-> hp2,
       list |-> LLIST_ADD_SORTED(l, ev, hp2),
       ev   |-> ev]

\* A rendering that leaves the note out.
event_tostr_nonote(o) ==
  LET lt == localtime_r(o.day)
  IN  fmt_0u(2, lt.tm_mon + 1) \o << ch.slash >> \o fmt_0u(2, lt.tm_mday)
      \o << ch.slash >> \o fmt_0u(4, 1900 + lt.tm_year)
      \o << ch.sp, ch.lbr >> \o fmt_d(o.id) \o << ch.rbr, ch.sp >>
      \o o.mesg

event_tostr(o) ==
  LET lt == localtime_r(o.day)
  IN  fmt_0u(2, lt.tm_mon + 1) \o << ch.slash >> \o fmt_0u(2, lt.tm_mday)
      \o << ch.slash >> \o fmt_0u(4, 1900 + lt.tm_year)
      \o << ch.sp, ch.lbr >> \o fmt_d(o.id) \o << ch.rbr, ch.sp >>
      \o (IF IsSome(o.note) THEN << ch.gt >> \o Val(o.note) \o << ch.sp >>
          ELSE << >>)
      \o o.mesg

\* sha1_digest: a digest that differs whenever the text differs.
sha1_digest(raw) == [sha1 |-> raw]

event_hash(ev) == sha1_digest(event_tostr(ev))

\* hash_matches(pattern, hash).
hash_matches(pattern, hash) == pattern = hash

\* The line event_write(o, f) appends to f.
event_write_line(o) == event_tostr(o) \o << ch.nl >>

\* The outcome of event_delete(ev) on list l: EXIT when no item holds ev,
\* otherwise the list without the first item that holds it.
event_delete_op(l, ev) ==
  LET i == LLIST_FIND_FIRST(l, ev)
  IN  IF i = 0 THEN [exit |-> TRUE, list |-> l]
      ELSE [exit |-> FALSE, list |-> LLIST_REMOVE(l, i)]

(* ----------------------------- event_scan ------------------------------ *)

\* struct item_filter, the fields event_scan reads.
Filter(type_mask, regex, start_from, start_to, end_from, end_to, hash, invert) ==
  [type_mask |-> type_mask, regex |-> regex, start_from |-> start_from,
   start_to |-> start_to, end_from |-> end_from, end_to |-> end_to,
   hash |-> hash, invert |-> invert]

\* The date fields of struct tm the caller fills in: the absolute year, the
\* month from 1, the day, and the time of day.
Tm(year, mon, mday, hour, min) ==
  [tm_year |-> year, tm_mon |-> mon, tm_mday |-> mday, tm_hour |-> hour,
   tm_min |-> min]

IsSubstring(p, s) ==
  \E i \in 0 .. Len(s) - Len(p) : SubSeq(s, i + 1, i + Len(p)) = p

\* regexec of a pattern without metacharacters: 0 on a match, REG_NOMATCH
\* otherwise.
regexec(regex, s) == IF IsSubstring(regex, s) THEN 0 ELSE 1

\* fgets(buf, sizeof buf, f): at most BUFSIZ - 1 bytes, up to and including
\* the first newline; ok is FALSE at the end of the stream.
fgets(f) ==
  IF f = << >> THEN [ok |-> FALSE, buf |-> << >>, rest |-> f]
  ELSE LET nl == strchr(f, ch.nl)
           lim == IF Len(f) < BUFSIZ - 1 THEN Len(f) ELSE BUFSIZ - 1
           n  == IF nl # 0 /\ nl <= lim THEN nl ELSE lim
       IN  [ok |-> TRUE, buf |-> SubSeq(f, 1, n),
            rest |-> SubSeq(f, n + 1, Len(f))]

\* nl = strchr(buf, '\n'); if (nl) *nl = '\0';
strip_nl(buf) ==
  LET nl == strchr(buf, ch.nl)
  IN  IF nl # 0 THEN SubSeq(buf, 1, nl - 1) ELSE buf

Running == "running"

\* Lines 160-182 with the description read before the date is checked.
scan_L160_readfirst(start, f) ==
  LET line == fgets(f)
      tm   == [tm_year |-> start.tm_year - 1900, tm_mon |-> start.tm_mon - 1,
               tm_mday |-> start.tm_mday, tm_hour |-> 0, tm_min |-> 0,
               tm_sec |-> 0]
      tstart == mktime(tm)
  IN  IF ~line.ok
      THEN [ret |-> "error in appointment description", f |-> line.rest,
            buf |-> << >>, tstart |-> 0, tend |-> 0]
      ELSE IF ~check_date(start.tm_year, start.tm_mon, start.tm_mday)
              \/ ~check_time(start.tm_hour, start.tm_min)
      THEN [ret |-> "illegal date in event", f |-> line.rest, buf |-> << >>,
            tstart |-> 0, tend |-> 0]
      ELSE IF tstart = -1
      THEN [ret |-> "date error in event\n", f |-> line.rest,
            buf |-> strip_nl(line.buf), tstart |-> tstart, tend |-> 0]
      ELSE [ret |-> Running, f |-> line.rest, buf |-> strip_nl(line.buf),
            tstart |-> tstart, tend |-> ENDOFDAY(tstart)]

\* Lines 160-182: validation, the read of the description, the conversion
\* of the date.  ret is the error returned, or Running.
scan_L160(start, f) ==
  LET line == fgets(f)
      tm   == [tm_year |-> start.tm_year - 1900, tm_mon |-> start.tm_mon - 1,
               tm_mday |-> start.tm_mday, tm_hour |-> 0, tm_min |-> 0,
               tm_sec |-> 0]
      tstart == mktime(tm)
  IN  IF ~check_date(start.tm_year, start.tm_mon, start.tm_mday)
         \/ ~check_time(start.tm_hour, start.tm_min)
      THEN [ret |-> "illegal date in event", f |-> f, buf |-> << >>,
            tstart |-> 0, tend |-> 0]
      ELSE IF ~line.ok
      THEN [ret |-> "error in appointment description", f |-> line.rest,
            buf |-> << >>, tstart |-> 0, tend |-> 0]
      ELSE IF tstart = -1
      THEN [ret |-> "date error in event\n", f |-> line.rest,
            buf |-> strip_nl(line.buf), tstart |-> tstart, tend |-> 0]
      ELSE [ret |-> Running, f |-> line.rest, buf |-> strip_nl(line.buf),
            tstart |-> tstart, tend |-> ENDOFDAY(tstart)]

HasEvntBit(mask) == ((mask \div TYPE_MASK_EVNT) % 2) = 1

\* The range tests with the comparisons made non-strict.
scan_cond_nonstrict(flt, buf, tstart, tend) ==
  \/ ~HasEvntBit(flt.type_mask)
  \/ (IsSome(flt.regex) /\ regexec(Val(flt.regex), buf) # 0)
  \/ (flt.start_from # -1 /\ tstart <= flt.start_from)
  \/ (flt.start_to # -1 /\ tstart >= flt.start_to)
  \/ (flt.end_from # -1 /\ tend <= flt.end_from)
  \/ (flt.end_to # -1 /\ tend >= flt.end_to)

\* Lines 186-193: cond before the hash is looked at.
scan_cond(flt, buf, tstart, tend) ==
  \/ ~HasEvntBit(flt.type_mask)
  \/ (IsSome(flt.regex) /\ regexec(Val(flt.regex), buf) # 0)
  \/ (flt.start_from # -1 /\ tstart < flt.start_from)
  \/ (flt.start_to # -1 /\ tstart > flt.start_to)
  \/ (flt.end_from # -1 /\ tend < flt.end_from)
  \/ (flt.end_to # -1 /\ tend > flt.end_to)

\* Lines 185-199 with the record created for the hash only when no other
\* clause has excluded it yet.
scan_L185_lazy(hp, l, fr) ==
  IF ~IsSome(fr.filter)
  THEN [heap |-> hp, list |-> l, ev |-> 0, cond |-> FALSE]
  ELSE LET flt  == Val(fr.filter)
           cond == scan_cond(flt, fr.buf, fr.tstart, fr.tend)
       IN  IF IsSome(flt.hash) /\ ~cond
           THEN LET n == event_new_op(hp, l, fr.buf, fr.note, fr.tstart, fr.id)
                IN  [heap |-> n.heap, list |-> n.list, ev |-> n.ev,
                     cond |-> ~hash_matches(Val(flt.hash),
                                            event_hash(Val(n.heap[n.ev])))]
           ELSE [heap |-> hp, list |-> l, ev |-> 0, cond |-> cond]

\* Lines 185-199: the filter, with the record created and inserted when a
\* hash is to be compared.
scan_L185(hp, l, fr) ==
  IF ~IsSome(fr.filter)
  THEN [heap |-> hp, list |-> l, ev |-> 0, cond |-> FALSE]
  ELSE LET flt  == Val(fr.filter)
           cond == scan_cond(flt, fr.buf, fr.tstart, fr.tend)
       IN  IF IsSome(flt.hash)
           THEN LET n == event_new_op(hp, l, fr.buf, fr.note, fr.tstart, fr.id)
                IN  [heap |-> n.heap, list |-> n.list, ev |-> n.ev,
                     cond |-> cond \/ ~hash_matches(Val(flt.hash),
                                          event_hash(Val(n.heap[n.ev])))]
           ELSE [heap |-> hp, list |-> l, ev |-> 0, cond |-> cond]

\* A decision that ignores the invert flag.
scan_discard_noinvert(flt, cond) == cond

\* Line 201: whether the record is discarded.
scan_discard(flt, cond) ==
  (~flt.invert /\ cond) \/ (flt.invert /\ ~cond)

\* Lines 201-209 without the removal of a rejected record.
scan_L201_nodelete(hp, l, fr) ==
  IF IsSome(fr.filter) /\ scan_discard(Val(fr.filter), fr.cond)
  THEN [heap |-> hp, list |-> l, exit |-> FALSE]
  ELSE IF fr.ev = 0
  THEN LET n == event_new_op(hp, l, fr.buf, fr.note, fr.tstart, fr.id)
       IN  [heap |-> n.heap, list |-> n.list, exit |-> FALSE]
  ELSE [heap |-> hp, list |-> l, exit |-> FALSE]

\* Lines 201-209: the rejected record is removed again, the accepted one is
\* created unless the hash comparison already created it.
scan_L201(hp, l, fr) ==
  IF IsSome(fr.filter) /\ scan_discard(Val(fr.filter), fr.cond)
  THEN IF IsSome(Val(fr.filter).hash)
       THEN LET d == event_delete_op(l, fr.ev)
            IN  [heap |-> hp, list |-> d.list, exit |-> d.exit]
       ELSE [heap |-> hp, list |-> l, exit |-> FALSE]
  ELSE IF fr.ev = 0
  THEN LET n == event_new_op(hp, l, fr.buf, fr.note, fr.tstart, fr.id)
       IN  [heap |-> n.heap, list |-> n.list, exit |-> FALSE]
  ELSE [heap |-> hp, list |-> l, exit |-> FALSE]

(* ------------------------ the data file's loader ------------------------ *)

IsDigit(c) == c >= ch.zero /\ c <= ch.zero + 9

RECURSIVE atou(_)
\* The number a string of digits denotes.
atou(ds) ==
  IF ds = << >> THEN 0
  ELSE 10 * atou(SubSeq(ds, 1, Len(ds) - 1)) + (ds[Len(ds)] - ch.zero)

\* Length of the run of digits of s that starts at index i.
DigitRun(s, i) ==
  CHOOSE k \in 0 .. Len(s) - i + 1 :
    /\ \A j \in i .. i + k - 1 : IsDigit(s[j])
    /\ i + k > Len(s) \/ ~IsDigit(s[i + k])

\* The head of a line "MM/DD/YYYY [<id>] [>NOTE ]MESSAGE\n" and the stream
\* after it.
parse_head(s) ==
  LET nm    == DigitRun(s, 1)
      mon   == atou(SubSeq(s, 1, nm))
      d0    == nm + 2
      nd    == DigitRun(s, d0)
      mday  == atou(SubSeq(s, d0, d0 + nd - 1))
      y0    == d0 + nd + 1
      ny    == DigitRun(s, y0)
      year  == atou(SubSeq(s, y0, y0 + ny - 1))
      i0    == y0 + ny + 2
      neg   == s[i0] = ch.minus
      i1    == IF neg THEN i0 + 1 ELSE i0
      ni    == DigitRun(s, i1)
      idabs == atou(SubSeq(s, i1, i1 + ni - 1))
      m0    == i1 + ni + 2
      noted == m0 <= Len(s) /\ s[m0] = ch.gt
      tail  == SubSeq(s, m0 + 1, Len(s))
      sp    == strchr(tail, ch.sp)
  IN  [year |-> year, mon |-> mon, mday |-> mday,
       id   |-> IF neg THEN 0 - idabs ELSE idabs,
       note |-> IF noted THEN Some(SubSeq(tail, 1, sp - 1)) ELSE None,
       rest |-> IF noted THEN SubSeq(tail, sp + 1, Len(tail))
                ELSE SubSeq(s, m0, Len(s))]

(* --------------------------- state machine ----------------------------- *)

\* The store as iteration sees it: each item's address and record.
StoreView(hp, l) == [i \in 1 .. Len(l) |-> << l[i], hp[l[i]] >>]

IdleFrame ==
  [pc |-> "idle", start |-> Tm(0, 0, 0, 0, 0), id |-> 0, note |-> None,
   filter |-> None, f |-> << >>, f0 |-> << >>, buf |-> << >>, tstart |-> 0,
   tend |-> 0, cond |-> FALSE, ev |-> 0, ret |-> Running, old |-> << >>,
   src |-> 0]

NoFile == [text |-> << >>, src |-> 0]

\* No call is in progress and the process has not exited.
Ready == exited = "" /\ scan.pc \in {"idle", "returned"}

Day(y, m, d) == mktime([tm_year |-> y - 1900, tm_mon |-> m - 1, tm_mday |-> d,
                        tm_hour |-> 0, tm_min |-> 0, tm_sec |-> 0])

\* event_llist_init.
Init ==
  /\ heap = [a \in Addr |-> None]
  /\ eventlist = << >>
  /\ held = {}
  /\ exited = ""
  /\ scan = IdleFrame
  /\ datafile = NoFile

event_new(mesg, note, day, id) ==
  /\ Ready
  /\ CanAlloc(heap)
  /\ LET n == event_new_op(heap, eventlist, mesg, note, day, id)
     IN  /\ heap' = n.heap
         /\ eventlist' = n.list
  /\ scan' = IdleFrame
  /\ UNCHANGED << held, exited, datafile >>

\* event_dup(in); in = 0 is the null pointer, which EXIT_IF refuses.
event_dup(in) ==
  /\ Ready
  /\ CanAlloc(heap)
  /\ IF in = 0
     THEN /\ exited' = "null pointer"
          /\ UNCHANGED << heap, held >>
     ELSE LET ev == mem_malloc(heap)
          IN  /\ heap' = [heap EXCEPT ![ev] = Some(Event(Val(heap[in]).id,
                            Val(heap[in]).day, Val(heap[in]).mesg,
                            Val(heap[in]).note))]
              /\ held' = held \cup {ev}
              /\ UNCHANGED exited
  /\ scan' = IdleFrame
  /\ UNCHANGED << eventlist, datafile >>

\* event_delete that removes every item holding the record.
event_delete_all(ev) ==
  /\ Ready
  /\ LET d == event_delete_op(eventlist, ev)
     IN  /\ eventlist' = SelectSeq(eventlist, LAMBDA a : a # ev)
         /\ exited' = IF d.exit THEN "no such appointment" ELSE ""
         /\ held' = IF d.exit THEN held ELSE held \cup {ev}
  /\ scan' = IdleFrame
  /\ UNCHANGED << heap, datafile >>

\* event_delete(ev): on success the caller owns the unlinked record.
event_delete(ev) ==
  /\ Ready
  /\ LET d == event_delete_op(eventlist, ev)
     IN  /\ eventlist' = d.list
         /\ exited' = IF d.exit THEN "no such appointment" ELSE ""
         /\ held' = IF d.exit THEN held ELSE held \cup {ev}
  /\ scan' = IdleFrame
  /\ UNCHANGED << heap, datafile >>

\* A paste that inserts without storing the new date.
event_paste_item_keepday(ev, date) ==
  /\ Ready
  /\ heap' = heap
  /\ eventlist' = LLIST_ADD_SORTED(eventlist, ev, heap')
  /\ held' = held \ {ev}
  /\ scan' = IdleFrame
  /\ UNCHANGED << exited, datafile >>

\* event_paste_item(ev, date): the store owns the record afterwards.
event_paste_item(ev, date) ==
  /\ Ready
  /\ heap' = [heap EXCEPT ![ev] = Some([Val(@) EXCEPT !.day = date])]
  /\ eventlist' = LLIST_ADD_SORTED(eventlist, ev, heap')
  /\ held' = held \ {ev}
  /\ scan' = IdleFrame
  /\ UNCHANGED << exited, datafile >>

event_free(ev) ==
  /\ Ready
  /\ heap' = [heap EXCEPT ![ev] = None]
  /\ held' = held \ {ev}
  /\ scan' = IdleFrame
  /\ UNCHANGED << eventlist, exited, datafile >>

\* event_scan(f, start, id, note, filter), lines 160-182; src is the record
\* whose written line f holds, 0 when f is any other stream.
event_scan_enter(f, start, id, note, filter, src) ==
  /\ Ready
  /\ CanAlloc(heap)
  /\ LET v == scan_L160(start, f)
     IN  scan' = [pc |-> IF v.ret = Running THEN "L185" ELSE "returned",
                  start |-> start, id |-> id, note |-> note,
                  filter |-> filter, f |-> v.f, f0 |-> f, buf |-> v.buf,
                  tstart |-> v.tstart, tend |-> v.tend, cond |-> FALSE,
                  ev |-> 0, ret |-> v.ret,
                  old |-> StoreView(heap, eventlist), src |-> src]
  /\ UNCHANGED << heap, eventlist, held, exited >>

event_scan(f, start, id, note, filter) ==
  /\ event_scan_enter(f, start, id, note, filter, 0)
  /\ UNCHANGED datafile

\* event_write(o, f) on the empty data file.
event_write(o) ==
  /\ Ready
  /\ datafile = NoFile
  /\ datafile' = [text |-> event_write_line(Val(heap[o])), src |-> o]
  /\ scan' = IdleFrame
  /\ UNCHANGED << heap, eventlist, held, exited >>

\* The loader of the data file: it reads the head of an event line and
\* hands the rest of the stream to event_scan, without a filter.
io_load_event ==
  /\ datafile # NoFile
  /\ LET h == parse_head(datafile.text)
     IN  event_scan_enter(h.rest, Tm(h.year, h.mon, h.mday, 0, 0), h.id,
                          h.note, None, datafile.src)
  /\ datafile' = NoFile

\* event_scan, lines 185-199.
event_scan_L185 ==
  /\ exited = ""
  /\ scan.pc = "L185"
  /\ LET r == scan_L185(heap, eventlist, scan)
     IN  /\ heap' = r.heap
         /\ eventlist' = r.list
         /\ scan' = [scan EXCEPT !.pc = "L201", !.ev = r.ev, !.cond = r.cond]
  /\ UNCHANGED << held, exited, datafile >>

\* event_scan, lines 201-209.
event_scan_L201 ==
  /\ exited = ""
  /\ scan.pc = "L201"
  /\ LET r == scan_L201(heap, eventlist, scan)
     IN  /\ heap' = r.heap
         /\ eventlist' = r.list
         /\ exited' = IF r.exit THEN "no such appointment" ELSE ""
  /\ scan' = [scan EXCEPT !.pc = "returned", !.ret = "NULL"]
  /\ UNCHANGED << held, datafile >>

(* ------------------------------ the caller ----------------------------- *)

Mesgs == { << ch.a >>, << ch.b >> }

Notes == { None }

Ids == { 3, 7 }

Days == { Day(2024, 3, 15), Day(2024, 3, 16) }

AnyFilter == Filter(3, None, -1, -1, -1, -1, None, FALSE)

\* Digest of the line of the event with identifier 7, no note and message
\* "a" on 15 March 2024.
HashA == event_hash(Event(7, Day(2024, 3, 15), << ch.a >>, None))

\* The loads the caller makes: a line kept without a filter, a line the
\* hash filter rejects, and a stream at its end.
CallerCalls ==
  { << << ch.a, ch.nl >>, Tm(2024, 3, 16, 0, 0), None >>,
    << << ch.b, ch.nl >>, Tm(2024, 3, 15, 0, 0),
       Some([AnyFilter EXCEPT !.hash = Some(HashA)]) >>,
    << << >>, Tm(2024, 3, 15, 0, 0), None >> }

\* The removals and re-insertions of a caller that keeps to the contracts: a
\* record is pasted or freed only after it has been removed.
RemoveOps ==
  \/ \E ev \in Live(heap) : event_delete(ev)
  \/ \E ev \in held, d \in Days :
       ~InList(eventlist, ev) /\ event_paste_item(ev, d)
  \/ \E ev \in held : ~InList(eventlist, ev) /\ event_free(ev)

\* The calls of a caller that keeps to the contracts.
Next ==
  \/ \E m \in Mesgs, n \in Notes, d \in Days, i \in Ids : event_new(m, n, d, i)
  \/ RemoveOps
  \/ \E in \in Live(heap) \cup {0} : event_dup(in)
  \/ \E c \in CallerCalls : event_scan(c[1], c[2], 7, None, c[3])
  \/ event_scan_L185
  \/ event_scan_L201

Spec == Init /\ [][Next]_vars

\* A caller of the store's operations, with at most MaxLinked records, who
\* also pastes a record that is still linked, while no record is linked
\* twice.
NextMisuse ==
  \/ /\ Cardinality(Live(heap)) < MaxLinked
     /\ \E m \in Mesgs, n \in Notes, d \in Days, i \in Ids :
          event_new(m, n, d, i)
  \/ RemoveOps
  \/ /\ \A a \in Addr : Count(eventlist, a) <= 1
     /\ \E ev \in Live(heap), d \in Days :
          InList(eventlist, ev) /\ event_paste_item(ev, d)

SpecMisuse == Init /\ [][NextMisuse]_vars

(* ------------------- one load, under every filter ---------------------- *)

\* The stores a load starts from: empty, and two events made by event_new.
InitStores ==
  LET e  == [heap |-> [a \in Addr |-> None], list |-> << >>]
      s1 == event_new_op(e.heap, e.list, << ch.b >>, None, Day(2024, 3, 16), 3)
      s2 == event_new_op(s1.heap, s1.list, << ch.a >>, None, Day(2024, 3, 15), 7)
  IN  { e, [heap |-> s2.heap, list |-> s2.list] }

InitScan ==
  /\ \E s \in InitStores : heap = s.heap /\ eventlist = s.list
  /\ held = {}
  /\ exited = ""
  /\ scan = IdleFrame
  /\ datafile = NoFile

ScanFiles == Strings({ ch.a, ch.nl }, MaxFile)

ScanStarts ==
  { Tm(2024, 3, 15, 0, 0), Tm(2024, 3, 16, 0, 0), Tm(2024, 2, 29, 0, 0),
    Tm(2023, 2, 29, 0, 0), Tm(1901, 3, 15, 0, 0), Tm(2024, 13, 15, 0, 0),
    Tm(2024, 3, 15, 24, 0), Tm(2024, 3, 15, 0, 60), Tm(2040, 3, 15, 0, 0) }

ScanNotes == { None, Some(<< ch.n >>) }

\* Every bound is unset (-1) or the instant that the 15th or the 16th of
\* March 2024 meets exactly.
ScanFilters ==
  { None } \cup
  { Some(Filter(tm, re, sf, st, ef, et, h, inv)) :
      tm \in { 3, 2 }, re \in { None, Some(<< ch.a >>) },
      sf \in { -1, Day(2024, 3, 16) }, st \in { -1, Day(2024, 3, 15) },
      ef \in { -1, ENDOFDAY(Day(2024, 3, 16)) },
      et \in { -1, ENDOFDAY(Day(2024, 3, 15)) },
      h \in { None, Some(HashA) },
      inv \in BOOLEAN }

NextScan ==
  \/ /\ scan.pc = "idle"
     /\ \E f \in ScanFiles, st \in ScanStarts, n \in ScanNotes,
           flt \in ScanFilters : event_scan(f, st, 7, n, flt)
  \/ event_scan_L185
  \/ event_scan_L201

SpecScan == InitScan /\ [][NextScan]_vars

(* ------------------------------- claims -------------------------------- *)

View == StoreView(heap, eventlist)

Returned == scan.pc = "returned"

\* event_scan has returned NULL: every validation passed.
Loaded == Returned /\ scan.ret = "NULL"

Kept == Len(eventlist) = Len(scan.old) + 1

Min(x, y) == IF x < y THEN x ELSE y

\* The description line of stream f: its bytes before the first newline, at
\* most BUFSIZ - 1 of them.
FirstLine(f) ==
  LET k == CHOOSE i \in 0 .. Min(Len(f), BUFSIZ - 1) :
             /\ \A j \in 1 .. i : f[j] # ch.nl
             /\ i = Min(Len(f), BUFSIZ - 1) \/ f[i + 1] = ch.nl
  IN  SubSeq(f, 1, k)

\* The record a load of the frame's arguments is to insert.
Candidate ==
  Event(scan.id, Day(scan.start.tm_year, scan.start.tm_mon, scan.start.tm_mday),
        FirstLine(scan.f0), scan.note)

\* The keep decision, from cond and the invert flag.
Passes ==
  \/ ~IsSome(scan.filter)
  \/ (Val(scan.filter).invert <=> scan.cond)

\* The view v is the view old with one item added, which holds record r at
\* an address no item of old holds.
AddsOne(v, old, r) ==
  \E i \in 1 .. Len(v) :
    /\ LLIST_REMOVE(v, i) = old
    /\ v[i][2] = Some(r)
    /\ \A j \in 1 .. Len(old) : old[j][1] # v[i][1]

\* C2: a load that passes validation leaves the store with exactly one new
\* record (parsed day, given identifier, read message, given note) next to
\* its previous contents when there is no filter or the record passes it,
\* and leaves the store as it was before the call when the record is
\* rejected, also when a hash comparison had created the record.
C2_Commit ==
  Loaded =>
    IF Passes THEN AddsOne(View, scan.old, Candidate)
    ELSE View = scan.old

C2_Witness_Reject ==
  /\ Loaded
  /\ ~Passes
  /\ IsSome(Val(scan.filter).hash)
  /\ scan.ev # 0
  /\ scan.old # << >>

C2_Witness ==
  /\ Loaded
  /\ Passes
  /\ Candidate = Event(7, Day(2024, 3, 15), << ch.a, ch.a >>, None)
  /\ Len(eventlist) = 3

DateIllegal ==
  \/ ~check_date(scan.start.tm_year, scan.start.tm_mon, scan.start.tm_mday)
  \/ ~check_time(scan.start.tm_hour, scan.start.tm_min)

\* C3: when event_scan returns an error string the store is as it was before
\* the call; date components that fail check_date (or check_time) give
\* "illegal date in event" with nothing read from the stream, an exhausted
\* stream and a date mktime cannot convert give their errors.
C3_ErrorLeavesStore ==
  Returned =>
    /\ scan.ret # "NULL" => View = scan.old /\ scan.ev = 0
    /\ DateIllegal => scan.ret = "illegal date in event" /\ scan.f = scan.f0
    /\ (~DateIllegal /\ scan.f0 = << >>) =>
         scan.ret = "error in appointment description"
    /\ (~DateIllegal /\ scan.f0 # << >> /\ scan.start.tm_year = 2040) =>
         scan.ret = "date error in event\n"
    /\ scan.ret \in { "NULL", "illegal date in event",
                      "error in appointment description",
                      "date error in event\n" }

C3_Witness ==
  /\ Returned
  /\ scan.ret = "illegal date in event"
  /\ ~check_date(scan.start.tm_year, scan.start.tm_mon, scan.start.tm_mday)
  /\ scan.f0 # << >>
  /\ scan.old # << >>

\* The list a load of the frame's arguments ends with under filter flt, run
\* from the state in which validation has passed.
RunWith(flt) ==
  LET fr == [scan EXCEPT !.filter = Some(flt)]
      a  == scan_L185(heap, eventlist, fr)
      b  == scan_L201(a.heap, a.list, [fr EXCEPT !.ev = a.ev, !.cond = a.cond])
  IN  b.list

KeptWith(flt) == Len(RunWith(flt)) = Len(eventlist) + 1

\* C4: for every candidate record and every filter, the load with invert set
\* keeps the record exactly when the load with the same filter and invert
\* unset discards it.
C4_Inversion ==
  (scan.pc = "L185" /\ IsSome(scan.filter)) =>
    LET flt == Val(scan.filter)
    IN  KeptWith([flt EXCEPT !.invert = TRUE])
          <=> ~KeptWith([flt EXCEPT !.invert = FALSE])

C4_Witness ==
  /\ scan.pc = "L185"
  /\ IsSome(scan.filter)
  /\ IsSome(Val(scan.filter).hash)
  /\ KeptWith([Val(scan.filter) EXCEPT !.invert = TRUE])
  /\ Len(RunWith([Val(scan.filter) EXCEPT !.invert = FALSE])) = Len(eventlist)

\* The seven exclusion clauses, for the candidate record.
Excluded(flt) ==
  LET daystart == Candidate.day
      dayend   == Candidate.day + DAYINSEC - 1
  IN  \/ flt.type_mask \in { 0, 2 }
      \/ (flt.regex # None /\ ~IsSubstring(Val(flt.regex), Candidate.mesg))
      \/ (flt.start_from # -1 /\ daystart < flt.start_from)
      \/ (flt.start_to # -1 /\ daystart > flt.start_to)
      \/ (flt.end_from # -1 /\ dayend < flt.end_from)
      \/ (flt.end_to # -1 /\ dayend > flt.end_to)
      \/ (flt.hash # None /\ Val(flt.hash) # event_hash(Candidate))

\* C5: with a filter and invert unset, the load keeps the record if and only
\* if none of the seven exclusion clauses holds; a bound of -1 excludes
\* nothing and a bound equal to the compared timestamp does not exclude.
C5_KeepIffNoClause ==
  (Loaded /\ IsSome(scan.filter) /\ ~Val(scan.filter).invert) =>
    (Kept <=> ~Excluded(Val(scan.filter)))

\* Kept with every bound set and met exactly.
C5_Witness ==
  /\ Loaded
  /\ IsSome(scan.filter)
  /\ ~Val(scan.filter).invert
  /\ Kept
  /\ Val(scan.filter).start_from = Candidate.day
  /\ Val(scan.filter).end_from = Candidate.day + DAYINSEC - 1
  /\ Val(scan.filter).start_to = -1
  /\ IsSome(Val(scan.filter).regex)

HashSet == IsSome(scan.filter) /\ IsSome(Val(scan.filter).hash)

\* C10: with a target hash in the filter the candidate record is in the store
\* once the filter has been evaluated, whatever the decision and whatever
\* the other clauses say, and is out of it again on return when rejected;
\* without a target hash (or without a filter) the store is untouched until
\* the decision and a rejected record is never in it.
C10_Transient ==
  /\ (scan.pc = "L201" /\ HashSet) =>
       /\ scan.ev # 0
       /\ AddsOne(View, scan.old, Candidate)
       /\ \E i \in 1 .. Len(eventlist) : eventlist[i] = scan.ev
  /\ (Loaded /\ HashSet /\ ~Passes) =>
       /\ View = scan.old
       /\ ~InList(eventlist, scan.ev)
  /\ (scan.pc = "L201" /\ ~HashSet) => View = scan.old /\ scan.ev = 0
  /\ (Loaded /\ ~HashSet /\ ~Passes) => View = scan.old /\ scan.ev = 0

\* The record is in the store although the range clause already excludes it.
C10_Witness ==
  /\ scan.pc = "L201"
  /\ HashSet
  /\ ~Val(scan.filter).invert
  /\ Val(scan.filter).start_from # -1
  /\ scan.tstart < Val(scan.filter).start_from
  /\ InList(eventlist, scan.ev)
  /\ scan.old # << >>

(* ---------------------- write one event, load it ----------------------- *)

RTMesgs == Strings({ ch.a, ch.nl, ch.gt }, MaxFile)

RTNotes == { None, Some(<< ch.n >>) }

\* Midnight of a day, an hour into that day, and midnight of a day of 1901.
RTDays == { Day(2024, 3, 15), Day(2024, 3, 15) + 3600, Day(1901, 12, 20) }

RTIds == { 7, -3 }

InitRT ==
  /\ \E m \in RTMesgs, n \in RTNotes, d \in RTDays, i \in RTIds :
       LET s == event_new_op([a \in Addr |-> None], << >>, m, n, d, i)
       IN  heap = s.heap /\ eventlist = s.list
  /\ held = {}
  /\ exited = ""
  /\ scan = IdleFrame
  /\ datafile = NoFile

NextRT ==
  \/ \E i \in 1 .. Len(eventlist) : scan.pc = "idle" /\ event_write(eventlist[i])
  \/ io_load_event
  \/ event_scan_L185
  \/ event_scan_L201

SpecRT == InitRT /\ [][NextRT]_vars

(* -------------------------- claims: the store -------------------------- *)

Rec(a) == Val(heap[a])

\* s is not above t in byte-wise order.
LexLeq(s, t) ==
  \E k \in 0 .. Min(Len(s), Len(t)) :
    /\ SubSeq(s, 1, k) = SubSeq(t, 1, k)
    /\ \/ k = Len(s)
       \/ (k < Len(t) /\ s[k + 1] < t[k + 1])

\* C1: whatever event_new, event_scan (kept, rejected or failed),
\* event_delete of a stored record and event_paste_item of a removed record
\* have done, iteration yields the records by ascending day and, within a
\* day, by ascending byte-wise message; the comparison of two stored records
\* does not change when their identifiers do.
C1_Sorted ==
  /\ \A i, j \in 1 .. Len(eventlist) :
       i < j =>
         \/ Rec(eventlist[i]).day < Rec(eventlist[j]).day
         \/ /\ Rec(eventlist[i]).day = Rec(eventlist[j]).day
            /\ LexLeq(Rec(eventlist[i]).mesg, Rec(eventlist[j]).mesg)
  /\ \A i, j \in 1 .. Len(eventlist) : \A x, y \in Ids :
       event_cmp([Rec(eventlist[i]) EXCEPT !.id = x],
                 [Rec(eventlist[j]) EXCEPT !.id = y])
         = event_cmp(Rec(eventlist[i]), Rec(eventlist[j]))

\* Three records, the one made last not at the tail, two of one day whose
\* identifiers run against their messages.
C1_Witness ==
  /\ Len(eventlist) = 3
  /\ Rec(eventlist[1]).day = Rec(eventlist[2]).day
  /\ Rec(eventlist[1]).mesg # Rec(eventlist[2]).mesg
  /\ Rec(eventlist[1]).id > Rec(eventlist[2]).id
  /\ Rec(eventlist[3]).day > Rec(eventlist[2]).day
  /\ eventlist[2] > eventlist[3]

\* C6 as stated: after a successful event_delete(r) the store does not
\* contain r and the other records keep their order; event_delete of a
\* record the store does not hold exits and leaves the store alone.
C6_DeleteAsClaimed ==
  [][\A ev \in Live(heap) :
       event_delete(ev) =>
         IF InList(eventlist, ev)
         THEN /\ ~InList(eventlist', ev)
              /\ eventlist' = SelectSeq(eventlist, LAMBDA a : a # ev)
              /\ exited' = ""
         ELSE /\ exited' = "no such appointment"
              /\ eventlist' = eventlist]_vars

\* C6, amended: a successful event_delete(r) removes the first item that
\* holds r, and every other item stays, in the same order; the store then no
\* longer contains r when one item held it.  event_delete of a record the
\* store does not hold exits with "no such appointment" and store and heap
\* stay as they were.
C6_Delete ==
  [][\A ev \in Live(heap) :
       event_delete(ev) =>
         IF InList(eventlist, ev)
         THEN /\ \E i \in 1 .. Len(eventlist) :
                   /\ eventlist[i] = ev
                   /\ \A j \in 1 .. i - 1 : eventlist[j] # ev
                   /\ eventlist' = LLIST_REMOVE(eventlist, i)
              /\ Count(eventlist, ev) = 1 => ~InList(eventlist', ev)
              /\ exited' = ""
              /\ heap' = heap
         ELSE /\ exited' = "no such appointment"
              /\ eventlist' = eventlist
              /\ heap' = heap]_vars

\* event_delete has removed one of the two items of a record.
C6_Witness ==
  \E ev \in held : InList(eventlist, ev) /\ Len(eventlist) >= 2

\* C7: every live record has exactly one owner, the store or the caller.
C7_OneOwner ==
  \A a \in Live(heap) : InList(eventlist, a) <=> a \notin held

\* C9: event_paste_item(r, d) sets r's day to d and adds one item that holds
\* r, every other item and record staying as it was: r is in the store once
\* if it was unlinked and twice if it was linked, and of a record linked
\* twice one event_delete leaves an item in the store.
C9_Paste ==
  [][/\ \A ev \in Live(heap) : \A d \in Days :
          event_paste_item(ev, d) =>
            /\ Rec(ev)'.day = d
            /\ \A a \in Addr : a # ev => heap'[a] = heap[a]
            /\ \E i \in 1 .. Len(eventlist') :
                 /\ eventlist'[i] = ev
                 /\ LLIST_REMOVE(eventlist', i) = eventlist
            /\ Count(eventlist', ev) = Count(eventlist, ev) + 1
     /\ \A ev \in Live(heap) :
          (event_delete(ev) /\ Count(eventlist, ev) = 2) =>
            InList(eventlist', ev)]_vars

\* A record pasted while linked: two items hold it, on its new day.
C9_Witness ==
  \E ev \in Addr :
    /\ Count(eventlist, ev) = 2
    /\ Len(eventlist) = 3
    /\ Rec(ev).day = Day(2024, 3, 16)

(* ------------------------ claims: the round trip ----------------------- *)

\* The load of the written line has inserted a record with the day, message
\* and note of the record written.
SameAgain ==
  /\ Loaded
  /\ \E i \in 1 .. Len(eventlist) :
       /\ LLIST_REMOVE(View, i) = scan.old
       /\ Rec(eventlist[i]).day = Rec(scan.src).day
       /\ Rec(eventlist[i]).mesg = Rec(scan.src).mesg
       /\ Rec(eventlist[i]).note = Rec(scan.src).note

ComesBack(o) ==
  LET lt == localtime_r(o.day)
  IN  /\ lt.tm_hour = 0 /\ lt.tm_min = 0 /\ lt.tm_sec = 0
      /\ check_date(1900 + lt.tm_year, lt.tm_mon + 1, lt.tm_mday)
      /\ strchr(o.mesg, ch.nl) = 0
      /\ Len(o.mesg) <= BUFSIZ - 1
      /\ (o.note = None /\ o.mesg # << >>) => o.mesg[1] # ch.gt
      /\ o.note # None =>
           strchr(Val(o.note), ch.sp) = 0 /\ strchr(Val(o.note), ch.nl) = 0

====
